---------------------------- MODULE Spec2Model ----------------------------
(***************************************************************************)
(* A model of drift_detector: ReferenceExpectationBuilder                  *)
(* (core/reference_expectations.py) and run_validation (core/validator.py).*)
(*                                                                         *)
(* Floats are modelled as exact rationals <<numerator, denominator>> in    *)
(* lowest terms with a positive denominator; NaN is the pair <<0, 0>>.     *)
(* A DataFrame is a record: its ordered column names, its row count, the   *)
(* dtype of each column and the values of each column (NA is the missing   *)
(* value: None or NaN).                                                    *)
(***************************************************************************)
EXTENDS Integers, Sequences, FiniteSets

(* ------------------------------ bounds -------------------------------- *)

\* Largest number of rows of a DataFrame.
MaxRows == 2

\* Largest number of builder calls made on one builder.
MaxOps == 2

(* ----------------------------- rationals ------------------------------ *)

Abs(x) == IF x < 0 THEN -x ELSE x

RECURSIVE Gcd(_, _)
Gcd(a, b) == IF b = 0 THEN a ELSE Gcd(b, a % b)

NaN == <<0, 0>>

IsNaN(x) == x[2] = 0

\* The rational n/d in lowest terms (d # 0).
Rat(n, d) ==
    LET g == Gcd(Abs(n), Abs(d))
        s == IF d < 0 THEN -1 ELSE 1
    IN  <<(s * n) \div g, (s * d) \div g>>

Zero == Rat(0, 1)

One == Rat(1, 1)

\* Float arithmetic: NaN is absorbing.
FAdd(x, y) ==
    IF IsNaN(x) \/ IsNaN(y) THEN NaN
    ELSE Rat(x[1] * y[2] + y[1] * x[2], x[2] * y[2])

FSub(x, y) ==
    IF IsNaN(x) \/ IsNaN(y) THEN NaN
    ELSE Rat(x[1] * y[2] - y[1] * x[2], x[2] * y[2])

\* Float division as numpy does it: x / 0 is NaN for x = 0 (a warning, not
\* an exception); the model never divides a nonzero value by zero.
FDiv(x, y) ==
    IF IsNaN(x) \/ IsNaN(y) \/ y[1] = 0 THEN NaN
    ELSE Rat(x[1] * y[2], x[2] * y[1])

\* Float comparisons: every comparison with NaN is false.
FLt(x, y) == ~IsNaN(x) /\ ~IsNaN(y) /\ x[1] * y[2] < y[1] * x[2]

FLe(x, y) == ~IsNaN(x) /\ ~IsNaN(y) /\ x[1] * y[2] <= y[1] * x[2]

\* Python's max(a, b) and min(a, b): the first argument is kept unless the
\* second compares strictly greater (smaller), so a NaN second argument
\* is dropped.
PyMax(a, b) == IF FLt(a, b) THEN b ELSE a

PyMin(a, b) == IF FLt(b, a) THEN b ELSE a

\* clamp(x, lo, hi) of the specification, for a value that is not NaN.
Clamp(x, lo, hi) == IF FLt(x, lo) THEN lo ELSE IF FLt(hi, x) THEN hi ELSE x

InUnit(x) == FLe(Zero, x) /\ FLe(x, One)

(* ----------------------------- DataFrames ----------------------------- *)

\* The missing value (None, NaN).
NA == 0

ColumnNames == {"id", "name"}

\* A column name no reference DataFrame has.
InvalidColumn == "invalid_col"

DTypes == {"int64", "float64", "object"}

\* The values a column of a dtype holds: an int64 column holds no missing
\* value (pandas turns it into float64); the values of an object column are
\* strings, named here by numbers.
ValuesOf(dt) == IF dt = "int64" THEN {1, 2} ELSE {NA, 1}

Range(s) == {s[i] : i \in DOMAIN s}

\* The non-empty sequences of distinct column names.
ColumnOrders ==
    {s \in UNION {[1..k -> ColumnNames] : k \in 1..Cardinality(ColumnNames)} :
        \A i, j \in DOMAIN s : i # j => s[i] # s[j]}

DataFor(cs, n, dt) ==
    {v \in [cs -> [1..n -> {NA, 1, 2}]] :
        \A c \in cs : \A i \in 1..n : v[c][i] \in ValuesOf(dt[c])}

DataFrames ==
    UNION {UNION {UNION {
        {[columns |-> cols, nrows |-> n, dtype |-> dt, data |-> v] :
            v \in DataFor(Range(cols), n, dt)}
        : dt \in [Range(cols) -> DTypes]}
        : n \in 0..MaxRows}
        : cols \in ColumnOrders}

\* len(df)
len(df) == df.nrows

\* df[column].isnull().sum()
isnull_sum(df, column) ==
    Cardinality({i \in 1..df.nrows : df.data[column][i] = NA})


\* The non-missing values of a column, in row order.
RECURSIVE dropna_from(_, _, _)
dropna_from(df, column, i) ==
    IF i > df.nrows THEN <<>>
    ELSE (IF df.data[column][i] = NA THEN <<>> ELSE <<df.data[column][i]>>)
         \o dropna_from(df, column, i + 1)

dropna(df, column) == dropna_from(df, column, 1)

RECURSIVE SumSeq(_)
SumSeq(s) == IF s = <<>> THEN 0 ELSE Head(s) + SumSeq(Tail(s))

RECURSIVE SumSquares(_)
SumSquares(s) == IF s = <<>> THEN 0 ELSE Head(s) * Head(s) + SumSquares(Tail(s))

\* df[column].mean(): the mean of the non-missing values, NaN when there
\* is none.
mean(df, column) ==
    LET xs == dropna(df, column)
    IN  IF Len(xs) = 0 THEN NaN ELSE Rat(SumSeq(xs), Len(xs))

\* Digits kept by the square root: results are multiples of 1/SqrtScale.
SqrtScale == 1000

\* The largest k in lo..hi with k * k <= x (lo * lo <= x < (hi + 1)^2).
RECURSIVE ISqrtIn(_, _, _)
ISqrtIn(x, lo, hi) ==
    IF lo >= hi THEN lo
    ELSE LET mid == (lo + hi + 1) \div 2
         IN  IF mid * mid <= x THEN ISqrtIn(x, mid, hi) ELSE ISqrtIn(x, lo, mid - 1)

FSqrt(x) ==
    IF IsNaN(x) \/ x[1] < 0 THEN NaN
    ELSE LET v == (x[1] * SqrtScale * SqrtScale) \div x[2]
         IN  Rat(ISqrtIn(v, 0, ((x[1] \div x[2]) + 1) * SqrtScale), SqrtScale)

\* df[column].std(): the sample standard deviation (ddof = 1) of the
\* non-missing values, NaN when there are fewer than two.
std(df, column) ==
    LET xs == dropna(df, column)
        n  == Len(xs)
    IN  IF n < 2 THEN NaN
        ELSE FSqrt(Rat(n * SumSquares(xs) - SumSeq(xs) * SumSeq(xs), n * (n - 1)))

\* value_counts without normalize=True: the counts themselves.
value_counts_raw(df, column) ==
    LET xs == dropna(df, column)
    IN  [v \in Range(xs) |-> Rat(Cardinality({i \in DOMAIN xs : xs[i] = v}), 1)]

\* df[column].value_counts(normalize=True).to_dict(): each distinct
\* non-missing value with its count divided by the number of non-missing
\* values; empty when the column has no non-missing value.
value_counts_normalized(df, column) ==
    LET xs == dropna(df, column)
    IN  [v \in Range(xs) |->
            Rat(Cardinality({i \in DOMAIN xs : xs[i] = v}), Len(xs))]

\* pandas.api.types.is_numeric_dtype
is_numeric_dtype(dt) == dt \in {"int64", "float64"}

\* dtype == other, for a string other: the string is converted to a dtype
\* and compared; a string that names no dtype compares unequal.
dtype_eq(dt, other) == other \in DTypes /\ dt = other

(* ---------------------------- expectations ---------------------------- *)

TableColumnsToMatchSet == "expect_table_columns_to_match_set"

ColumnValuesToBeOfType == "expect_column_values_to_be_of_type"

ColumnProportionOfNonNullValuesToBeBetween ==
    "expect_column_proportion_of_non_null_values_to_be_between"

ColumnKLDivergenceToBeLessThan == "expect_column_kl_divergence_to_be_less_than"

ColumnMeanToBeBetween == "expect_column_mean_to_be_between"

ColumnStdevToBeBetween == "expect_column_stdev_to_be_between"

ColumnValuesToMatchLikePattern == "expect_column_values_to_match_like_pattern"

\* The parameters of each expectation class that the builder sets, under
\* the names the class declares (the names the tests read them back by).
ExpectationFields(type) ==
    CASE type = TableColumnsToMatchSet -> {"column_set"}
      [] type = ColumnValuesToBeOfType -> {"column", "type_"}
      [] type = ColumnProportionOfNonNullValuesToBeBetween ->
            {"column", "min_value", "max_value"}
      [] type = ColumnKLDivergenceToBeLessThan ->
            {"column", "partition_object", "threshold"}
      [] type = ColumnMeanToBeBetween -> {"column", "min_value", "max_value"}
      [] type = ColumnStdevToBeBetween -> {"column", "min_value", "max_value"}
      [] type = ColumnValuesToMatchLikePattern -> {"column", "like_pattern"}

ValidationError == [type |-> "ValidationError", kwargs |-> <<>>]

\* gxe.<Expectation>(**kwargs): the expectation classes are validated
\* models; a call that passes an undeclared keyword, or omits a declared
\* one set here, raises instead of building the object.
Expectation(type, kwargs) ==
    IF DOMAIN kwargs = ExpectationFields(type)
    THEN [type |-> type, kwargs |-> kwargs]
    ELSE ValidationError

(* --------------------- ReferenceExpectationBuilder -------------------- *)

\* get_range without the clamps.
get_range_no_clamp(base, tolerance) == <<FSub(base, tolerance), FAdd(base, tolerance)>>

\* get_range with the lower bound's sign slipped.
get_range_shifted(base, tolerance) ==
    <<PyMax(Zero, FAdd(base, tolerance)), PyMin(One, FAdd(base, tolerance))>>

\* get_range with the arguments of max and min in the other order, which
\* keeps a NaN base.
get_range_swapped(base, tolerance) ==
    <<PyMax(FSub(base, tolerance), Zero), PyMin(FAdd(base, tolerance), One)>>

\* get_range(base, tolerance)
get_range(base, tolerance) ==
    <<PyMax(Zero, FSub(base, tolerance)), PyMin(One, FAdd(base, tolerance))>>

\* add_column_changes leaving the last column out of the set.
column_changes_drop_last(df) ==
    <<Expectation(TableColumnsToMatchSet,
        [column_set |-> {df.columns[i] : i \in 1..(Len(df.columns) - 1)}])>>

\* The expectation add_column_changes appends.
column_changes(df) ==
    <<Expectation(TableColumnsToMatchSet, [column_set |-> Range(df.columns)])>>

\* add_column_type_changes with the two arguments of the constructor
\* exchanged.
RECURSIVE column_type_changes_swapped(_, _)
column_type_changes_swapped(df, i) ==
    IF i > Len(df.columns) THEN <<>>
    ELSE LET column == df.columns[i]
         IN  <<Expectation(ColumnValuesToBeOfType,
                           [column |-> df.dtype[column], type_ |-> column])>>
             \o column_type_changes_swapped(df, i + 1)

\* The expectations add_column_type_changes appends: one for each column
\* from the i-th on.
RECURSIVE column_type_changes(_, _)
column_type_changes(df, i) ==
    IF i > Len(df.columns) THEN <<>>
    ELSE LET column == df.columns[i]
         IN  <<Expectation(ColumnValuesToBeOfType,
                           [column |-> column, type_ |-> df.dtype[column]])>>
             \o column_type_changes(df, i + 1)

\* reference_non_null_proportion of a column: 1 - nulls / len(df); the
\* division is numpy's, so 0 / 0 is NaN.
reference_non_null_proportion(df, column) ==
    FSub(One, FDiv(Rat(isnull_sum(df, column), 1), Rat(len(df), 1)))

\* The expectations add_null_value_drifts appends.
RECURSIVE null_value_drifts(_, _, _)
null_value_drifts(df, tolerance, i) ==
    IF i > Len(df.columns) THEN <<>>
    ELSE LET column == df.columns[i]
             range  == get_range(reference_non_null_proportion(df, column), tolerance)
         IN  <<Expectation(ColumnProportionOfNonNullValuesToBeBetween,
                           [column |-> column, min_value |-> range[1],
                            max_value |-> range[2]])>>
             \o null_value_drifts(df, tolerance, i + 1)

\* The expectations add_categorical_distribution_drifts appends.
RECURSIVE categorical_distribution_drifts(_, _, _)
categorical_distribution_drifts(df, threshold, i) ==
    IF i > Len(df.columns) THEN <<>>
    ELSE LET column == df.columns[i]
         IN  (IF is_numeric_dtype(df.dtype[column])
              THEN <<Expectation(ColumnKLDivergenceToBeLessThan,
                        [column |-> column,
                         partition_object |-> value_counts_normalized(df, column),
                         threshold |-> threshold])>>
              ELSE <<>>)
             \o categorical_distribution_drifts(df, threshold, i + 1)

\* self.reference_df[column].dtype == 'number'
is_number(dt) == dtype_eq(dt, "number")

\* The expectations add_numerical_distribution_drifts appends.
RECURSIVE numerical_distribution_drifts(_, _, _)
numerical_distribution_drifts(df, threshold, i) ==
    IF i > Len(df.columns) THEN <<>>
    ELSE LET column   == df.columns[i]
             mean_rng == get_range(mean(df, column), threshold)
             std_rng  == get_range(std(df, column), threshold)
         IN  (IF is_number(df.dtype[column])
              THEN <<Expectation(ColumnMeanToBeBetween,
                        [column |-> column, min_value |-> mean_rng[1],
                         max_value |-> mean_rng[2]]),
                     Expectation(ColumnStdevToBeBetween,
                        [column |-> column, min_value |-> std_rng[1],
                         max_value |-> std_rng[2]])>>
              ELSE <<>>)
             \o numerical_distribution_drifts(df, threshold, i + 1)

\* The expectation add_string_pattern_drift builds once the column is known:
\* the pattern is passed under the keyword "pattern".
string_pattern_drift(column, pattern) ==
    <<Expectation(ColumnValuesToMatchLikePattern,
                  [column |-> column, pattern |-> pattern])>>

\* The position of the first constructor call of s that raised, 0 if none.
FirstError(s) ==
    IF \E i \in DOMAIN s : s[i] = ValidationError
    THEN CHOOSE i \in DOMAIN s :
            /\ s[i] = ValidationError
            /\ \A j \in 1..(i - 1) : s[j] # ValidationError
    ELSE 0

\* The list assigned instead of appended to.
Appended_replace(expectations, s) ==
    IF FirstError(s) = 0 THEN s ELSE SubSeq(s, 1, FirstError(s) - 1)

\* self.expectations.append(...) for each expectation of s in turn, up to
\* the first constructor call that raises.
Appended(expectations, s) ==
    IF FirstError(s) = 0 THEN expectations \o s
    ELSE expectations \o SubSeq(s, 1, FirstError(s) - 1)

Raised(s) == IF FirstError(s) = 0 THEN "" ELSE "ValidationError"

(* ------------------------------ evaluation ---------------------------- *)

\* The proportion of non-null values the evaluator observes in a column of
\* the target.  On a target without rows the proportion is a quotient 0/0;
\* the specification sets it to 1 there, while test_empty_target expects a
\* band of [0.9, 1.0] to reject it: the value taken is `empty`, which the
\* evaluation chooses among EmptyProportions.
non_null_proportion(df, column, empty) ==
    IF len(df) = 0 THEN empty
    ELSE Rat(len(df) - isnull_sum(df, column), len(df))

EmptyProportions == {Zero, One}

between(observed, kwargs) ==
    FLe(kwargs.min_value, observed) /\ FLe(observed, kwargs.max_value)

\* Whether one expectation passes on the target.  An expectation on a
\* column the target lacks fails.
success_of(e, df, empty) ==
    CASE e.type = TableColumnsToMatchSet ->
            Range(df.columns) = e.kwargs.column_set
      [] e.type = ColumnValuesToBeOfType ->
            /\ e.kwargs.column \in Range(df.columns)
            /\ df.dtype[e.kwargs.column] = e.kwargs.type_
      [] e.type = ColumnProportionOfNonNullValuesToBeBetween ->
            /\ e.kwargs.column \in Range(df.columns)
            /\ between(non_null_proportion(df, e.kwargs.column, empty), e.kwargs)
      [] e.type = ColumnMeanToBeBetween ->
            /\ e.kwargs.column \in Range(df.columns)
            /\ is_numeric_dtype(df.dtype[e.kwargs.column])
            /\ between(mean(df, e.kwargs.column), e.kwargs)
      [] e.type = ColumnStdevToBeBetween ->
            /\ e.kwargs.column \in Range(df.columns)
            /\ is_numeric_dtype(df.dtype[e.kwargs.column])
            /\ between(std(df, e.kwargs.column), e.kwargs)

\* batch.validate(suite): one result for each expectation, in the suite's
\* order; the report succeeds when every result does.
validate(suite, df, empty) ==
    LET results == [i \in DOMAIN suite |->
                      [expectation_config |-> suite[i],
                       success |-> success_of(suite[i], df, empty)]]
    IN  [done |-> TRUE,
         success |-> \A i \in DOMAIN results : results[i].success,
         results |-> results]

NoReport == [done |-> FALSE, success |-> FALSE, results |-> <<>>]

(* ------------------------------- state -------------------------------- *)

VARIABLES
    reference_df,   \* the builder's reference DataFrame
    target_df,      \* the DataFrame run_validation validates
    expectations,   \* the builder's list of expectations
    raised,         \* the exception the last call raised, "" if none
    ops,            \* the number of builder calls made
    last,           \* the last call: its name, arguments, and the list before it
    report          \* the result of run_validation

vars == <<reference_df, target_df, expectations, raised, ops, last, report>>

Tolerances == {Rat(-1, 10), Rat(1, 10), Rat(3, 2)}

DefaultTolerance == Rat(1, 10)

Thresholds == {Rat(1, 10), Rat(1, 5)}

Patterns == {"A|B|C"}

Call(op, arg, column, pattern) ==
    [op |-> op, arg |-> arg, column |-> column, pattern |-> pattern,
     before |-> expectations]

\* ReferenceExpectationBuilder(_reference_df)
Init ==
    /\ reference_df \in DataFrames
    /\ target_df = reference_df
    /\ expectations = <<>>
    /\ raised = ""
    /\ ops = 0
    /\ last = [op |-> "__init__", arg |-> NaN, column |-> "", pattern |-> "",
               before |-> <<>>]
    /\ report = NoReport

\* A builder call that appends the expectations of s, or raises on the way.
Builder(call, s) ==
    /\ ops < MaxOps
    /\ ops' = ops + 1
    /\ last' = call
    /\ expectations' = Appended(expectations, s)
    /\ raised' = Raised(s)
    /\ UNCHANGED <<reference_df, target_df, report>>

add_column_changes ==
    Builder(Call("add_column_changes", NaN, "", ""), column_changes(reference_df))

add_column_type_changes ==
    Builder(Call("add_column_type_changes", NaN, "", ""),
            column_type_changes(reference_df, 1))

add_null_value_drifts ==
    \E tolerance \in Tolerances :
        Builder(Call("add_null_value_drifts", tolerance, "", ""),
                null_value_drifts(reference_df, tolerance, 1))

add_categorical_distribution_drifts ==
    \E threshold \in Thresholds :
        Builder(Call("add_categorical_distribution_drifts", threshold, "", ""),
                categorical_distribution_drifts(reference_df, threshold, 1))

add_numerical_distribution_drifts ==
    \E threshold \in Thresholds :
        Builder(Call("add_numerical_distribution_drifts", threshold, "", ""),
                numerical_distribution_drifts(reference_df, threshold, 1))

add_string_pattern_drift ==
    \E column \in ColumnNames \cup {InvalidColumn}, pattern \in Patterns :
        /\ ops < MaxOps
        /\ ops' = ops + 1
        /\ last' = Call("add_string_pattern_drift", NaN, column, pattern)
        /\ IF column \notin Range(reference_df.columns)
           THEN /\ raised' = "Exception"
                /\ UNCHANGED expectations
           ELSE /\ raised' = Raised(string_pattern_drift(column, pattern))
                /\ expectations' =
                      Appended(expectations, string_pattern_drift(column, pattern))
        /\ UNCHANGED <<reference_df, target_df, report>>

Next ==
    \/ add_column_changes
    \/ add_column_type_changes
    \/ add_null_value_drifts
    \/ add_categorical_distribution_drifts
    \/ add_numerical_distribution_drifts
    \/ add_string_pattern_drift

Spec == Init /\ [][Next]_vars

(* --------------------------- run_validation --------------------------- *)

\* The expectations run_validation's builder holds after its four calls.
validation_rules(df) ==
    column_changes(df)
    \o column_type_changes(df, 1)
    \o null_value_drifts(df, DefaultTolerance, 1)
    \o numerical_distribution_drifts(df, DefaultTolerance, 1)

\* The targets a reference is validated against: a copy of it, any
\* DataFrame without rows, and the DataFrames with as many rows whose
\* columns differ from the reference's (schema drift) or whose columns and
\* dtypes are the reference's (value drift).
TargetFrames(df) ==
    {d \in DataFrames :
        \/ d.nrows = 0
        \/ /\ d.nrows = df.nrows
           /\ \/ Range(d.columns) # Range(df.columns)
              \/ d.columns = df.columns /\ d.dtype = df.dtype}

InitRun ==
    /\ reference_df \in DataFrames
    /\ target_df \in TargetFrames(reference_df)
    /\ expectations = <<>>
    /\ raised = ""
    /\ ops = 0
    /\ last = [op |-> "__init__", arg |-> NaN, column |-> "", pattern |-> "",
               before |-> <<>>]
    /\ report = NoReport

\* run_validation(reference_df, target_df)
run_validation ==
    /\ ~report.done
    /\ raised = ""
    /\ last' = Call("run_validation", NaN, "", "")
    /\ ops' = ops + 4
    /\ expectations' = Appended(<<>>, validation_rules(reference_df))
    /\ raised' = Raised(validation_rules(reference_df))
    /\ IF raised' = ""
       THEN \E empty \in EmptyProportions :
                report' = validate(expectations', target_df, empty)
       ELSE UNCHANGED report
    /\ UNCHANGED <<reference_df, target_df>>

NextRun == run_validation

SpecRun == InitRun /\ [][NextRun]_vars

(* ------------------------------- claims ------------------------------- *)

\* The expectations the last call appended.
Added == SubSeq(expectations, Len(last.before) + 1, Len(expectations))

\* The last call kept the list it found as a prefix of the list it left.
KeptBefore ==
    /\ Len(expectations) >= Len(last.before)
    /\ SubSeq(expectations, 1, Len(last.before)) = last.before

\* The non-null ratio of a column of a DataFrame that has rows.
Ratio(df, column) ==
    Rat(Cardinality({i \in 1..df.nrows : df.data[column][i] # NA}), df.nrows)

Numeric(df, column) == df.dtype[column] \in {"int64", "float64"}

NumericCount(df) ==
    Cardinality({i \in DOMAIN df.columns : Numeric(df, df.columns[i])})

\* The i-th expectation appended by add_null_value_drifts carries the
\* clamped band around the ratio of the i-th reference column.
ClampedBand(i) ==
    LET column == reference_df.columns[i]
        r      == Ratio(reference_df, column)
        e      == Added[i]
    IN  /\ e.type = ColumnProportionOfNonNullValuesToBeBetween
        /\ e.kwargs.column = column
        /\ e.kwargs.min_value = Clamp(FSub(r, last.arg), Zero, One)
        /\ e.kwargs.max_value = Clamp(FAdd(r, last.arg), Zero, One)
        /\ InUnit(e.kwargs.min_value)
        /\ InUnit(e.kwargs.max_value)

AfterNullValueDrifts ==
    /\ last.op = "add_null_value_drifts"
    /\ reference_df.nrows > 0

\* C1 (as stated): after add_null_value_drifts(tolerance), for every
\* tolerance the caller supplies and every reference column with non-null
\* ratio r in [0,1], the rule's bounds are exactly
\* [clamp(r - tolerance, 0, 1), clamp(r + tolerance, 0, 1)] and lie in [0,1].
C1_BoundsClampedAnyTolerance ==
    AfterNullValueDrifts =>
        /\ Len(Added) = Len(reference_df.columns)
        /\ \A i \in DOMAIN reference_df.columns : ClampedBand(i)

\* C1 (amended): the same for every tolerance >= 0; in particular r = 0 with
\* tolerance 0.1 gives [0.0, 0.1] and r = 1 with tolerance 0.1 gives
\* [0.9, 1.0].
C1_BoundsClamped ==
    (AfterNullValueDrifts /\ FLe(Zero, last.arg)) =>
        /\ Len(Added) = Len(reference_df.columns)
        /\ \A i \in DOMAIN reference_df.columns :
            /\ ClampedBand(i)
            /\ (last.arg = Rat(1, 10)
                /\ Ratio(reference_df, reference_df.columns[i]) = Zero)
               => /\ Added[i].kwargs.min_value = Zero
                  /\ Added[i].kwargs.max_value = Rat(1, 10)
            /\ (last.arg = Rat(1, 10)
                /\ Ratio(reference_df, reference_df.columns[i]) = One)
               => /\ Added[i].kwargs.min_value = Rat(9, 10)
                  /\ Added[i].kwargs.max_value = One

\* C1 witness: add_null_value_drifts(0.1) has run on a reference holding a
\* fully null column and a fully populated one, so both clamps acted.
C1_Witness ==
    /\ AfterNullValueDrifts
    /\ last.arg = Rat(1, 10)
    /\ \E i, j \in DOMAIN reference_df.columns :
        /\ Ratio(reference_df, reference_df.columns[i]) = Zero
        /\ Ratio(reference_df, reference_df.columns[j]) = One
        /\ Added[i].kwargs.min_value = Zero
        /\ Added[j].kwargs.max_value = One

\* The MeanRange and StdRange rules of a numeric column among the appended
\* expectations, with the absolute band around the reference statistic.
HasBand(type, column, base) ==
    \E i \in DOMAIN Added :
        /\ Added[i].type = type
        /\ Added[i].kwargs.column = column
        /\ Added[i].kwargs.min_value = FSub(base, last.arg)
        /\ Added[i].kwargs.max_value = FAdd(base, last.arg)

\* C2: after add_numerical_distribution_drifts(threshold), every numeric
\* reference column with mean m and standard deviation s has a MeanRange
\* rule with bounds exactly [m - threshold, m + threshold] and a StdRange
\* rule with bounds exactly [s - threshold, s + threshold].
C2_AbsoluteBands ==
    last.op = "add_numerical_distribution_drifts" =>
        \A i \in DOMAIN reference_df.columns :
            LET column == reference_df.columns[i]
            IN  (/\ Numeric(reference_df, column)
                 /\ ~IsNaN(mean(reference_df, column))
                 /\ ~IsNaN(std(reference_df, column)))
                => /\ HasBand(ColumnMeanToBeBetween, column,
                              mean(reference_df, column))
                   /\ HasBand(ColumnStdevToBeBetween, column,
                              std(reference_df, column))

\* The positions in a list of expectations that name a column.
RulesOf(list, type, column) ==
    {i \in DOMAIN list : list[i].type = type /\ list[i].kwargs.column = column}

\* C3: add_numerical_distribution_drifts appends exactly two rules (one
\* MeanRange, then one StdRange) for each numeric reference column and none
\* for a non-numeric column: with k numeric columns the list grows by 2k.
C3_TwoRulesPerNumericColumn ==
    last.op = "add_numerical_distribution_drifts" =>
        /\ KeptBefore
        /\ Len(Added) = 2 * NumericCount(reference_df)
        /\ \A i \in DOMAIN Added :
            /\ Added[i].type =
                  (IF i % 2 = 1 THEN ColumnMeanToBeBetween ELSE ColumnStdevToBeBetween)
            /\ Numeric(reference_df, Added[i].kwargs.column)
        /\ \A i \in DOMAIN reference_df.columns :
            Numeric(reference_df, reference_df.columns[i]) =>
                \E j \in DOMAIN Added :
                    /\ j % 2 = 1
                    /\ j + 1 \in DOMAIN Added
                    /\ Added[j].kwargs.column = reference_df.columns[i]
                    /\ Added[j + 1].kwargs.column = reference_df.columns[i]

\* run_validation has returned a report on target = copy of reference.
SelfComparison ==
    /\ report.done
    /\ target_df = reference_df

AllPass == \A i \in DOMAIN report.results : report.results[i].success

\* C4: for a dataset D with at least one row, run_validation(D, copy of D)
\* builds the rules from D and evaluates D against them with every rule
\* passing: the report's success is true.
C4_SelfComparisonSucceeds ==
    (SelfComparison /\ reference_df.nrows >= 1) =>
        /\ report.success
        /\ AllPass
        /\ Len(report.results) = Len(expectations)
        /\ Len(expectations) >= 1 + 2 * Len(reference_df.columns)
        /\ \A i \in DOMAIN expectations :
            report.results[i].expectation_config = expectations[i]

\* C4 witness: a self-comparison of a dataset with rows, a missing value
\* among them, has been reported.
C4_Witness ==
    /\ SelfComparison
    /\ reference_df.nrows >= 2
    /\ \E c \in Range(reference_df.columns) :
          Ratio(reference_df, c) = Rat(1, 2)
    /\ report.success

\* The results of the ColumnSetMatch rule.
ColumnSetResults ==
    {i \in DOMAIN report.results :
        report.results[i].expectation_config.type = TableColumnsToMatchSet}

\* C5: whenever the target's column-name set differs from the reference's
\* (a column removed or added), the report's success is false and the
\* ColumnSetMatch rule is among the failed results; when the two sets are
\* equal the ColumnSetMatch rule passes.
C5_SchemaDrift ==
    report.done =>
        /\ ColumnSetResults # {}
        /\ IF Range(target_df.columns) # Range(reference_df.columns)
           THEN /\ ~report.success
                /\ \E i \in ColumnSetResults : ~report.results[i].success
           ELSE \A i \in ColumnSetResults : report.results[i].success

\* C5 witnesses: a report on a target that lacks a reference column, and
\* one on a target with an extra column.
C5_Witness ==
    /\ report.done
    /\ Range(target_df.columns) \subseteq Range(reference_df.columns)
    /\ Range(target_df.columns) # Range(reference_df.columns)
    /\ \E i \in ColumnSetResults : ~report.results[i].success

C5_WitnessAdded ==
    /\ report.done
    /\ Range(reference_df.columns) \subseteq Range(target_df.columns)
    /\ Range(target_df.columns) # Range(reference_df.columns)
    /\ ~report.success

\* C6: add_string_pattern_drift(column, pattern) on a column the reference
\* lacks raises and leaves the rule list exactly as it was; on a reference
\* column it appends exactly one PatternMatch rule carrying that column
\* and that pattern.
C6_PatternRule ==
    last.op = "add_string_pattern_drift" =>
        IF last.column \notin Range(reference_df.columns)
        THEN /\ raised # ""
             /\ expectations = last.before
        ELSE /\ raised = ""
             /\ KeptBefore
             /\ Len(Added) = 1
             /\ Added[1].type = ColumnValuesToMatchLikePattern
             /\ Added[1].kwargs.column = last.column
             /\ Added[1].kwargs.like_pattern = last.pattern

\* The part of C6 about an unknown column.
C6_UnknownColumnRaises ==
    (/\ last.op = "add_string_pattern_drift"
     /\ last.column \notin Range(reference_df.columns))
    => /\ raised = "Exception"
       /\ expectations = last.before

RECURSIVE SumOver(_, _)
SumOver(f, S) ==
    IF S = {} THEN Zero
    ELSE LET x == CHOOSE y \in S : TRUE
         IN  FAdd(f[x], SumOver(f, S \ {x}))

\* The distinct non-missing values of a column.
Distinct(df, column) == {df.data[column][i] : i \in 1..df.nrows} \ {NA}

Occurrences(df, column, v) ==
    Cardinality({i \in 1..df.nrows : df.data[column][i] = v})

\* The numeric columns among the first i columns, in order.
RECURSIVE NumericColumns(_, _)
NumericColumns(df, i) ==
    IF i = 0 THEN <<>>
    ELSE NumericColumns(df, i - 1)
         \o (IF Numeric(df, df.columns[i]) THEN <<df.columns[i]>> ELSE <<>>)

\* The i-th appended expectation is the DistributionDivergence rule of the
\* i-th numeric column: the threshold given and every distinct non-missing
\* value mapped to its relative frequency.
DivergenceRule(i) ==
    LET column == NumericColumns(reference_df, Len(reference_df.columns))[i]
        e      == Added[i]
        total  == reference_df.nrows
                  - Occurrences(reference_df, column, NA)
    IN  /\ e.type = ColumnKLDivergenceToBeLessThan
        /\ e.kwargs.column = column
        /\ e.kwargs.threshold = last.arg
        /\ DOMAIN e.kwargs.partition_object = Distinct(reference_df, column)
        /\ \A v \in Distinct(reference_df, column) :
              e.kwargs.partition_object[v] =
                  Rat(Occurrences(reference_df, column, v), total)

Frequencies(i) ==
    SumOver(Added[i].kwargs.partition_object,
            DOMAIN Added[i].kwargs.partition_object)

OneRulePerNumericColumn ==
    /\ KeptBefore
    /\ Len(Added) = NumericCount(reference_df)
    /\ \A i \in DOMAIN Added : DivergenceRule(i)

\* C7 (as stated): add_categorical_distribution_drifts(threshold) appends
\* exactly one DistributionDivergence rule for each numeric reference
\* column and none for a non-numeric one; each carries the threshold and
\* the map from every distinct non-missing value to its relative
\* frequency, the frequencies summing to 1.
C7_FrequenciesSumToOne ==
    last.op = "add_categorical_distribution_drifts" =>
        /\ OneRulePerNumericColumn
        /\ \A i \in DOMAIN Added : Frequencies(i) = One

\* C7 (amended): the same, the frequencies summing to 1 when the column
\* has a non-missing value; the map of a numeric column without one is
\* empty.
C7_NormalizedDistribution ==
    last.op = "add_categorical_distribution_drifts" =>
        /\ OneRulePerNumericColumn
        /\ \A i \in DOMAIN Added :
            IF Distinct(reference_df, Added[i].kwargs.column) # {}
            THEN Frequencies(i) = One
            ELSE DOMAIN Added[i].kwargs.partition_object = {}

\* C7 witness: the call has run on a reference with a text column and a
\* numeric column of two distinct values.
C7_Witness ==
    /\ last.op = "add_categorical_distribution_drifts"
    /\ Len(Added) = 1
    /\ Len(reference_df.columns) = 2
    /\ Cardinality(DOMAIN Added[1].kwargs.partition_object) = 2
    /\ Frequencies(1) = One

\* A column that holds one value in every row.
Constant(df, column) ==
    /\ df.nrows >= 1
    /\ Occurrences(df, column, NA) = 0
    /\ Cardinality(Distinct(df, column)) = 1

Contains(type, column, observed) ==
    \E i \in RulesOf(expectations, type, column) :
        /\ FLe(expectations[i].kwargs.min_value, observed)
        /\ FLe(observed, expectations[i].kwargs.max_value)
        /\ report.results[i].success

\* C8: when reference and target are identical and a numeric column holds
\* one constant value c in every row, the MeanRange and StdRange rules
\* derived for that column have bounds that contain c and 0, so both pass
\* and the report's success is true.
C8_ZeroVariance ==
    SelfComparison =>
        \A column \in Range(reference_df.columns) :
            (Numeric(reference_df, column) /\ Constant(reference_df, column))
            => /\ Contains(ColumnMeanToBeBetween, column,
                           Rat(reference_df.data[column][1], 1))
               /\ Contains(ColumnStdevToBeBetween, column, Zero)
               /\ report.success

\* The part of C8 about the report.
C8_ZeroVarianceReport ==
    (/\ SelfComparison
     /\ \E column \in Range(reference_df.columns) :
           Numeric(reference_df, column) /\ Constant(reference_df, column))
    => report.success

\* Reference and target both without rows, with the same typed columns.
BothEmpty ==
    /\ report.done
    /\ reference_df.nrows = 0
    /\ target_df.nrows = 0
    /\ Range(target_df.columns) = Range(reference_df.columns)
    /\ target_df.dtype = reference_df.dtype

\* C9: when reference and target both have zero rows and the same columns,
\* the report's success is true: every derived rule has defined bounds and
\* passes.
C9_BothEmptySucceeds ==
    BothEmpty =>
        /\ raised = ""
        /\ report.success
        /\ AllPass
        /\ \A i \in DOMAIN expectations :
            expectations[i].type = ColumnProportionOfNonNullValuesToBeBetween
            => /\ ~IsNaN(expectations[i].kwargs.min_value)
               /\ ~IsNaN(expectations[i].kwargs.max_value)

\* C9 witness: such a report, holding the results of the non-null rules.
C9_Witness ==
    /\ BothEmpty
    /\ report.success
    /\ \E i \in DOMAIN report.results :
          report.results[i].expectation_config.type =
              ColumnProportionOfNonNullValuesToBeBetween

\* C11: after any sequence of builder calls, those that raise included,
\* every rule of the builder's list that targets a column names a column
\* of the reference, and the expected set of every ColumnSetMatch rule is
\* the reference's column-name set.
C11_RulesNameReferenceColumns ==
    \A i \in DOMAIN expectations :
        /\ "column" \in DOMAIN expectations[i].kwargs
           => expectations[i].kwargs.column \in Range(reference_df.columns)
        /\ expectations[i].type = TableColumnsToMatchSet
           => expectations[i].kwargs.column_set = Range(reference_df.columns)

\* C11 witness: add_string_pattern_drift has just raised on a column the
\* reference lacks, after a call that left rules in the list.
C11_Witness ==
    /\ last.op = "add_string_pattern_drift"
    /\ last.column = InvalidColumn
    /\ raised = "Exception"
    /\ \E i \in DOMAIN expectations : "column" \in DOMAIN expectations[i].kwargs

\* C11 witness of its second part: a list holding a ColumnSetMatch rule
\* and per-column rules.
C11_WitnessColumnSet ==
    /\ \E i \in DOMAIN expectations : expectations[i].type = TableColumnsToMatchSet
    /\ \E i \in DOMAIN expectations : "column" \in DOMAIN expectations[i].kwargs

\* add_null_value_drifts(t) with t in [0,1] has run on a reference without
\* rows.
AfterNullValueDriftsNoRows ==
    /\ last.op = "add_null_value_drifts"
    /\ reference_df.nrows = 0
    /\ InUnit(last.arg)

\* C12: when the reference has zero rows, add_null_value_drifts takes every
\* column's non-null ratio to be 1.0, so with tolerance t in [0,1] each
\* NonNullRatioRange rule has the bounds [1 - t, 1.0].
C12_NoRowsRatioIsOne ==
    AfterNullValueDriftsNoRows =>
        /\ raised = ""
        /\ Len(Added) = Len(reference_df.columns)
        /\ \A i \in DOMAIN Added :
            /\ Added[i].type = ColumnProportionOfNonNullValuesToBeBetween
            /\ Added[i].kwargs.column = reference_df.columns[i]
            /\ Added[i].kwargs.min_value = FSub(One, last.arg)
            /\ Added[i].kwargs.max_value = One

\* What the call does there: the ratio is the quotient 0/0, which is
\* undefined, and every rule gets the bounds [0.0, 1.0] whatever t is.
C12_NoRowsWholeInterval ==
    AfterNullValueDriftsNoRows =>
        /\ raised = ""
        /\ Len(Added) = Len(reference_df.columns)
        /\ \A i \in DOMAIN Added :
            /\ IsNaN(reference_non_null_proportion(reference_df,
                                                   reference_df.columns[i]))
            /\ Added[i].kwargs.min_value = Zero
            /\ Added[i].kwargs.max_value = One

IsPrefix(a, b) == Len(a) <= Len(b) /\ SubSeq(b, 1, Len(a)) = a

ColumnIndex(df, column) == CHOOSE i \in DOMAIN df.columns : df.columns[i] = column

\* The rules of a list that name a column do so in the reference's column
\* order.
InColumnOrder(df, list) ==
    \A i, j \in DOMAIN list :
        (/\ i < j
         /\ "column" \in DOMAIN list[i].kwargs
         /\ "column" \in DOMAIN list[j].kwargs)
        => ColumnIndex(df, list[i].kwargs.column)
              <= ColumnIndex(df, list[j].kwargs.column)

\* One builder call: the rules it found stay where they were, what it adds
\* comes after them in reference-column order, and the reference is as it
\* was.
AppendOnlyStep ==
    /\ IsPrefix(expectations, expectations')
    /\ InColumnOrder(reference_df,
                     SubSeq(expectations', Len(expectations) + 1, Len(expectations')))
    /\ reference_df' = reference_df

\* C13: the builder's rule list starts empty and is append-only: every
\* builder call leaves the rules added before unchanged and at the same
\* positions, appends zero or more rules after them (in reference-column
\* order for the per-column calls), and does not modify the reference.
C13_AppendOnly == (expectations = <<>>) /\ [][AppendOnlyStep]_vars

\* C13 witness: a per-column call has appended several rules to a list
\* that already held rules.
C13_Witness ==
    /\ ops = 2
    /\ last.op \in {"add_column_type_changes", "add_null_value_drifts",
                    "add_categorical_distribution_drifts"}
    /\ Len(last.before) >= 2
    /\ Len(Added) >= 2
    /\ KeptBefore

=============================================================================
